---- MODULE Spec2Model ----
(***************************************************************************)
(* A model of barcode_validator:                                           *)
(*   - result.py:   the DNAAnalysisResult entity, its validating setters   *)
(*                  and its check predicates (specification Spec);         *)
(*   - taxonomy.py: run_seqid, run_localblast, collect_lineages, run_blast *)
(*                  and run_boldigger2 (specification SpecTaxonomy).       *)
(***************************************************************************)
EXTENDS Integers, Sequences, FiniteSets, TLC

(***************************************************************************)
(* Bounds of the model.                                                    *)
(***************************************************************************)
\* add_stop_codon is called while the stop-codon list is shorter than this
MaxStops == 2
\* add_obs_taxon appends while the observed-taxon list is shorter than this
MaxObs == 2

(***************************************************************************)
(* Python values.  Every value is a record of the same shape so that any   *)
(* two values can be compared: kind is the Python type, num the numeric    *)
(* value (of an int, a bool, or the integral part of a float), name and    *)
(* rank the identity of a Taxon.                                           *)
(***************************************************************************)
PyInt(n) == [kind |-> "int", num |-> n, name |-> "", rank |-> ""]
PyBool(b) == [kind |-> "bool", num |-> IF b THEN 1 ELSE 0, name |-> "", rank |-> ""]
PyStr(s) == [kind |-> "str", num |-> 0, name |-> s, rank |-> ""]
PyFloat(n) == [kind |-> "float", num |-> n, name |-> "", rank |-> ""]
PyNone == [kind |-> "NoneType", num |-> 0, name |-> "", rank |-> ""]
Taxon(n, r) == [kind |-> "Taxon", num |-> 0, name |-> n, rank |-> r]

G1 == Taxon("G1", "genus")
G2 == Taxon("G2", "genus")

\* isinstance(v, int): bool is a subclass of int in Python
IsInstanceInt(v) == v.kind \in {"int", "bool"}
\* isinstance(v, Taxon)
IsInstanceTaxon(v) == v.kind = "Taxon"

(***************************************************************************)
(* The values the callers of the model pass to the setters.                *)
(***************************************************************************)
LenArgs == {PyInt(-1), PyInt(0), PyInt(299), PyInt(500), PyStr("500"), PyFloat(500),
            PyNone, PyBool(TRUE)}
AmbArgs == {PyInt(-1), PyInt(0), PyStr("3"), PyNone}
TaxonArgs == {G1, G2, PyStr("G1"), PyNone}
SpeciesArgs == {G1, PyStr("G1"), PyNone}
PosArgs == {PyInt(-1), PyInt(0), PyInt(45), PyStr("45")}
\* lists assigned through the stop_codons setter
StopLists == {<<>>, <<PyInt(45)>>, <<PyInt(0), PyInt(45)>>, <<PyInt(45), PyInt(45)>>,
              <<PyInt(-1)>>, <<PyInt(45), PyInt(-1)>>, <<PyStr("45")>>,
              <<PyInt(45), PyNone>>}
\* lists assigned through the obs_taxon setter
ObsLists == {<<>>, <<G1>>, <<G2>>, <<G1, G1>>, <<G2, G1>>, <<PyStr("G1")>>,
             <<G1, PyStr("G1")>>, <<PyNone, G2>>}
\* values that are not lists, as arguments of the list-valued setters
NonLists == {PyNone, PyInt(45)}
MinLengths == {300}
ProcessIds == {"BGE_0001"}

(***************************************************************************)
(* State.  The first block is one DNAAnalysisResult; op and outcome record *)
(* the last call made on it and whether it returned or raised.             *)
(***************************************************************************)
VARIABLES process_id, seq_length, obs_taxon, exp_taxon, species, stop_codons,
          ambiguities, min_seq_length, op, outcome

(***************************************************************************)
(* The second block is the identification run of taxonomy.py: the loaded   *)
(* taxonomy tree, the configuration entries 'level' and 'idcheck', and the *)
(* last call: its function, its arguments, whether it returned or raised,  *)
(* what it returned, and whether a call to an external collaborator failed *)
(* while it ran.                                                           *)
(***************************************************************************)
VARIABLES tree, level, idcheck, tx_op, tx_args, tx_outcome, tx_result, tx_failed

taxvars == <<tree, level, idcheck, tx_op, tx_args, tx_outcome, tx_result, tx_failed>>

fields == <<process_id, seq_length, obs_taxon, exp_taxon, species, stop_codons,
            ambiguities>>
resvars == <<process_id, seq_length, obs_taxon, exp_taxon, species, stop_codons,
             ambiguities, min_seq_length, op, outcome>>
vars == <<resvars, taxvars>>

\* the result of a call: a list (its elements as a set), None, or nothing (raised)
ResList(items) == [kind |-> "list", items |-> items]
ResNone == [kind |-> "None", items |-> {}]
ResRaised == [kind |-> "raised", items |-> {}]
NoArgs == [taxids |-> {}, lineages |-> <<>>, rows |-> <<>>]

\* no identification run has been made
TaxonomyIdle ==
    /\ tree = <<>>
    /\ level = "genus"
    /\ idcheck = "localblast"
    /\ tx_op = "none"
    /\ tx_args = NoArgs
    /\ tx_outcome = "none"
    /\ tx_result = ResNone
    /\ tx_failed = {}

\* DNAAnalysisResult.__init__
Init ==
    /\ process_id \in ProcessIds
    /\ seq_length = PyNone
    /\ obs_taxon = <<>>
    /\ exp_taxon = PyNone
    /\ species = PyNone
    /\ stop_codons = <<>>
    /\ ambiguities = PyNone
    /\ min_seq_length \in MinLengths
    /\ op = "__init__"
    /\ outcome = "ok"
    /\ TaxonomyIdle

Raise(name) ==
    /\ op' = name
    /\ outcome' = "ValueError"
    /\ UNCHANGED <<fields, min_seq_length, taxvars>>

Return(name) ==
    /\ op' = name
    /\ outcome' = "ok"
    /\ UNCHANGED <<min_seq_length, taxvars>>

\* the test with "<" for "<=": zero is accepted
SeqLengthRejected_AcceptsZero(value) == ~IsInstanceInt(value) \/ value.num < 0

\* the seq_length setter's test
SeqLengthRejected(value) == ~IsInstanceInt(value) \/ value.num <= 0

set_seq_length(value) ==
    IF SeqLengthRejected(value)
    THEN Raise("seq_length")
    ELSE /\ seq_length' = value
         /\ Return("seq_length")
         /\ UNCHANGED <<process_id, obs_taxon, exp_taxon, species, stop_codons,
                        ambiguities>>

\* the obs_taxon setter's test; taxa is [isList, items, value]
ObsTaxonRejected(taxa) ==
    ~taxa.isList \/ ~(\A i \in 1..Len(taxa.items) : IsInstanceTaxon(taxa.items[i]))

\* obs_taxon setter: the list is stored as given
set_obs_taxon(taxa) ==
    IF ObsTaxonRejected(taxa)
    THEN Raise("obs_taxon")
    ELSE /\ obs_taxon' = taxa.items
         /\ Return("obs_taxon")
         /\ UNCHANGED <<process_id, seq_length, exp_taxon, species, stop_codons,
                        ambiguities>>

\* Python's "x in list": equality with some element
InList(x, list) == \E i \in 1..Len(list) : list[i] = x

add_obs_taxon(taxon) ==
    IF ~IsInstanceTaxon(taxon)
    THEN Raise("add_obs_taxon")
    ELSE /\ obs_taxon' = IF ~InList(taxon, obs_taxon)
                         THEN Append(obs_taxon, taxon)
                         ELSE obs_taxon
         /\ Return("add_obs_taxon")
         /\ UNCHANGED <<process_id, seq_length, exp_taxon, species, stop_codons,
                        ambiguities>>

set_exp_taxon(taxon) ==
    IF ~IsInstanceTaxon(taxon)
    THEN Raise("exp_taxon")
    ELSE /\ exp_taxon' = taxon
         /\ Return("exp_taxon")
         /\ UNCHANGED <<process_id, seq_length, obs_taxon, species, stop_codons,
                        ambiguities>>

set_species(sp) ==
    IF ~IsInstanceTaxon(sp)
    THEN Raise("species")
    ELSE /\ species' = sp
         /\ Return("species")
         /\ UNCHANGED <<process_id, seq_length, obs_taxon, exp_taxon, stop_codons,
                        ambiguities>>

\* the test of one stop-codon position
PositionRejected(position) == ~IsInstanceInt(position) \/ position.num < 0

\* the stop_codons setter's test; codon_positions is [isList, items, value]
StopCodonsRejected(codon_positions) ==
    \/ ~codon_positions.isList
    \/ ~(\A i \in 1..Len(codon_positions.items) :
            ~PositionRejected(codon_positions.items[i]))

set_stop_codons(codon_positions) ==
    IF StopCodonsRejected(codon_positions)
    THEN Raise("stop_codons")
    ELSE /\ stop_codons' = codon_positions.items
         /\ Return("stop_codons")
         /\ UNCHANGED <<process_id, seq_length, obs_taxon, exp_taxon, species,
                        ambiguities>>

\* the ambiguities setter's test
AmbiguitiesRejected(n_ambiguities) ==
    ~IsInstanceInt(n_ambiguities) \/ n_ambiguities.num < 0

set_ambiguities(n_ambiguities) ==
    IF AmbiguitiesRejected(n_ambiguities)
    THEN Raise("ambiguities")
    ELSE /\ ambiguities' = n_ambiguities
         /\ Return("ambiguities")
         /\ UNCHANGED <<process_id, seq_length, obs_taxon, exp_taxon, species,
                        stop_codons>>

add_stop_codon(position) ==
    IF PositionRejected(position)
    THEN Raise("add_stop_codon")
    ELSE /\ stop_codons' = Append(stop_codons, position)
         /\ Return("add_stop_codon")
         /\ UNCHANGED <<process_id, seq_length, obs_taxon, exp_taxon, species,
                        ambiguities>>

(***************************************************************************)
(* The check predicates.                                                   *)
(***************************************************************************)
\* truth value of a Python object in "x and y" / "if x"
Truthy(v) ==
    CASE v.kind = "NoneType" -> FALSE
      [] v.kind \in {"int", "bool", "float"} -> v.num /= 0
      [] v.kind = "str" -> v.name /= ""
      [] OTHER -> TRUE

check_length ==
    IF seq_length /= PyNone THEN seq_length.num >= min_seq_length ELSE FALSE

\* the membership test dropped: any observed taxon passes
check_taxonomy_NoMembership ==
    IF Len(obs_taxon) /= 0 /\ Truthy(exp_taxon) THEN TRUE ELSE FALSE

check_taxonomy ==
    IF Len(obs_taxon) /= 0 /\ Truthy(exp_taxon)
    THEN InList(exp_taxon, obs_taxon)
    ELSE FALSE

\* one stop codon tolerated
check_pseudogene_ToleratesOne == Len(stop_codons) <= 1

check_pseudogene == Len(stop_codons) = 0

\* Python's "a and b" on booleans: a when a is false, b otherwise
PyAnd(a, b) == IF a THEN b ELSE a

\* the pseudogene check left out of the conjunction
passes_all_checks_NoPseudogene == PyAnd(check_length, check_taxonomy)

passes_all_checks == PyAnd(PyAnd(check_length, check_taxonomy), check_pseudogene)

(***************************************************************************)
(* Arguments of the list-valued setters: a list, or a value that is none.  *)
(***************************************************************************)
ListArg(items) == [isList |-> TRUE, items |-> items, value |-> PyNone]
NonListArg(v) == [isList |-> FALSE, items |-> <<>>, value |-> v]
ObsTaxonArgs ==
    {ListArg(l) : l \in ObsLists} \cup {NonListArg(v) : v \in NonLists}
StopCodonsArgs ==
    {ListArg(l) : l \in StopLists} \cup {NonListArg(v) : v \in NonLists}

\* a call that appends is made while the list is below the model's bound
SetSeqLength == \E v \in LenArgs : set_seq_length(v)
SetObsTaxon == \E a \in ObsTaxonArgs : set_obs_taxon(a)
AddObsTaxon ==
    \E t \in TaxonArgs :
        /\ IsInstanceTaxon(t) /\ ~InList(t, obs_taxon) => Len(obs_taxon) < MaxObs
        /\ add_obs_taxon(t)
SetExpTaxon == \E t \in TaxonArgs : set_exp_taxon(t)
SetSpecies == \E t \in SpeciesArgs : set_species(t)
SetStopCodons == \E a \in StopCodonsArgs : set_stop_codons(a)
SetAmbiguities == \E v \in AmbArgs : set_ambiguities(v)
AddStopCodon ==
    \E v \in PosArgs :
        /\ ~PositionRejected(v) => Len(stop_codons) < MaxStops
        /\ add_stop_codon(v)

Next ==
    \/ SetSeqLength
    \/ SetObsTaxon
    \/ AddObsTaxon
    \/ SetExpTaxon
    \/ SetSpecies
    \/ SetStopCodons
    \/ SetAmbiguities
    \/ AddStopCodon

Spec == Init /\ [][Next]_vars

(***************************************************************************)
(* taxonomy.py.  A taxon name is a Python string, modelled as the tuple of *)
(* its characters so that iterating over it is what Python does.           *)
(***************************************************************************)
\* the BLAST hits kept by run_blast: record.alignments[:10]
TopHits == 10
\* most lines of a local BLAST result
MaxLines == 2
\* most alignments of a remote BLAST record
MaxHits == 2

nG1 == <<"G", "1">>
nG2 == <<"G", "2">>
nFa == <<"F", "a">>
nG == <<"G">>
nH == <<"H">>
nT1 == <<"T", "1">>
nT2 == <<"T", "2">>
nT3 == <<"T", "3">>
Unknown == <<"U", "n", "k", "n", "o", "w", "n">>

\* a node of the tree, and a tip with its guids['taxon'] and tree.root.get_path(tip)
Node(rank, name) == [taxonomic_rank |-> rank, name |-> name]
Tip(name, taxid, ancestors) ==
    [name |-> name, taxon |-> taxid, path |-> Append(ancestors, Node("species", name))]

\* tips 10 and 11 under genus G1, tip 20 under genus G2, all in family Fa
ScenarioTree ==
    << Tip(nT1, "10", <<Node("family", nFa), Node("genus", nG1)>>),
       Tip(nT2, "11", <<Node("family", nFa), Node("genus", nG1)>>),
       Tip(nT3, "20", <<Node("family", nFa), Node("genus", nG2)>>) >>
\* genera with one-letter names, and a tip placed directly under its family
ShortTree ==
    << Tip(nT1, "10", <<Node("family", nFa), Node("genus", nG)>>),
       Tip(nT2, "11", <<Node("family", nFa)>>),
       Tip(nT3, "20", <<Node("family", nFa), Node("genus", nH)>>) >>
Trees == {ScenarioTree, ShortTree, <<>>}
Levels == {"genus", "Genus", "family", "order"}
Idchecks == {"boldigger2", "blast", "localblast", "bold"}
TaxidTokens == {"10", "11", "20", "99"}

\* str.lower() on the configured levels
Lower(str) ==
    CASE str = "Genus" -> "genus"
      [] OTHER -> str

\* str.strip() on the tokens of a staxids column
Strip(str) ==
    CASE str = " 20" -> "20"
      [] str = " " -> ""
      [] OTHER -> str

\* iterating over a string yields its characters, each a string of length one
Chars(name) == {<<name[i]>> : i \in 1..Len(name)}

\* the tips selected by collect_lineages, as indices into tree.get_terminals()
MatchingTips(taxids, t) == {i \in 1..Len(t) : t[i].taxon \in taxids}

\* the nodes on a tip's path whose rank is the configured level, lower-cased
NodesAtLevel(tip, lvl) ==
    {j \in 1..Len(tip.path) : tip.path[j].taxonomic_rank = Lower(lvl)}

\* every tip selected, whatever its taxid
collect_lineages_AllTips(taxids, t, lvl) ==
    ResList(UNION {UNION {Chars(t[i].path[j].name) : j \in NodesAtLevel(t[i], lvl)} :
                   i \in 1..Len(t)})

\* taxa.update(node.name) adds the characters of the name to the set
collect_lineages(taxids, t, lvl) ==
    ResList(UNION {UNION {Chars(t[i].path[j].name) : j \in NodesAtLevel(t[i], lvl)} :
                   i \in MatchingTips(taxids, t)})

Called(args, out, res, failed) ==
    /\ tx_args' = args
    /\ tx_outcome' = out
    /\ tx_result' = res
    /\ tx_failed' = failed
    /\ UNCHANGED <<resvars, tree, level, idcheck>>

\* the distinct taxids of a BLAST result; a line is the tokens of its last column
DistinctTaxids(lines) ==
    UNION {{Strip(lines[i][k]) : k \in 1..Len(lines[i])} : i \in 1..Len(lines)} \ {""}

\* run_localblast: blastn either fails (CalledProcessError, re-raised) or
\* writes its result, which is parsed and resolved against the tree
run_localblast(blastn_fails, lines) ==
    IF blastn_fails
    THEN Called(NoArgs, "raised", ResRaised, {"blastn"})
    ELSE Called([NoArgs EXCEPT !.taxids = DistinctTaxids(lines)], "returned",
                collect_lineages(DistinctTaxids(lines), tree, level), {})

RECURSIVE FetchedLineages(_)
\* the lineages list built by run_blast's loop: a hit whose Entrez lookup
\* raises is logged and skipped
FetchedLineages(hits) ==
    IF hits = <<>> THEN <<>>
    ELSE IF Head(hits).ok
         THEN <<Head(hits).lineage>> \o FetchedLineages(Tail(hits))
         ELSE FetchedLineages(Tail(hits))

\* lst[:n]
Take(lst, n) == SubSeq(lst, 1, IF Len(lst) < n THEN Len(lst) ELSE n)

\* lineages without the level are not filtered out: their .get() is None
taxa_at_level_Unfiltered(lineages, target_level) ==
    {IF target_level \in DOMAIN lineages[i] THEN lineages[i][target_level] ELSE <<>> :
        i \in 1..Len(lineages)}

\* set(lineage.get(target_level) for lineage in lineages if target_level in lineage)
taxa_at_level(lineages, target_level) ==
    {lineages[i][target_level] :
        i \in {k \in 1..Len(lineages) : target_level \in DOMAIN lineages[k]}}

\* run_blast: qblast either fails (the exception propagates) or returns a
\* record; each of its top hits is looked up, and the consensus is taken
run_blast(qblast_fails, alignments) ==
    IF qblast_fails
    THEN Called(NoArgs, "raised", ResRaised, {"qblast"})
    ELSE LET top_hits == Take(alignments, TopHits)
             lineages == FetchedLineages(top_hits)
             failed == IF \E i \in 1..Len(top_hits) : ~top_hits[i].ok
                       THEN {"entrez"} ELSE {}
         IN  Called([NoArgs EXCEPT !.lineages = lineages], "returned",
                    IF taxa_at_level(lineages, level) /= {}
                    THEN ResList(taxa_at_level(lineages, level))
                    ELSE ResList({Unknown}),
                    failed)

\* run_boldigger2: boldigger2 either fails (CalledProcessError, re-raised) or
\* writes its spreadsheet; the first query row's column is returned, and
\* nothing (None) when there is no query row
run_boldigger2(boldigger2_fails, query_rows) ==
    IF boldigger2_fails
    THEN Called(NoArgs, "raised", ResRaised, {"boldigger2"})
    ELSE Called([NoArgs EXCEPT !.rows = query_rows], "returned",
                IF query_rows /= <<>>
                THEN ResList({query_rows[1][Lower(level)]})
                ELSE ResNone,
                {})

(***************************************************************************)
(* What the external collaborators answer.                                 *)
(***************************************************************************)
\* the staxids column of a line: one taxid, two, or none
StaxidFields == {<<"10">>, <<"11">>, <<"20">>, <<"99">>, <<"10", " 20">>, <<"">>}
RECURSIVE ListsUpTo(_, _)
ListsUpTo(S, n) ==
    IF n = 0 THEN {<<>>}
    ELSE ListsUpTo(S, n - 1) \cup {Append(l, x) : l \in ListsUpTo(S, n - 1), x \in S}
BlastResults == ListsUpTo(StaxidFields, MaxLines)
\* rank -> scientific name, from the LineageEx of a taxonomy record
Lineages == {[family |-> nFa, genus |-> nG1], [family |-> nFa, genus |-> nG2],
             [family |-> nFa], [species |-> nT1]}
\* a hit whose lookup raises has no lineage; the field is not read
Hits == {[ok |-> TRUE, lineage |-> l] : l \in Lineages}
            \cup {[ok |-> FALSE, lineage |-> [species |-> nT1]]}
Alignments == ListsUpTo(Hits, MaxHits)
Row(g) == [genus |-> g, family |-> nFa, order |-> <<"O">>]
QueryRows == {<<>>, <<Row(nG1)>>, <<Row(nG2), Row(nG1)>>}

\* run_seqid dispatches on the configured method; any other method is logged
\* and the function returns None
RunSeqid ==
    /\ tx_op' = "run_seqid"
    /\ \/ /\ idcheck = "boldigger2"
          /\ \E f \in BOOLEAN, rows \in QueryRows : run_boldigger2(f, rows)
       \/ /\ idcheck = "blast"
          /\ \E f \in BOOLEAN, al \in Alignments : run_blast(f, al)
       \/ /\ idcheck = "localblast"
          /\ \E f \in BOOLEAN, lines \in BlastResults : run_localblast(f, lines)
       \/ /\ idcheck \notin {"boldigger2", "blast", "localblast"}
          /\ Called(NoArgs, "returned", ResNone, {})

RunBoldigger2 ==
    /\ tx_op' = "run_boldigger2"
    /\ \E f \in BOOLEAN, rows \in QueryRows : run_boldigger2(f, rows)

RunBlast ==
    /\ tx_op' = "run_blast"
    /\ \E f \in BOOLEAN, al \in Alignments : run_blast(f, al)

RunLocalblast ==
    /\ tx_op' = "run_localblast"
    /\ \E f \in BOOLEAN, lines \in BlastResults : run_localblast(f, lines)

CollectLineages ==
    /\ tx_op' = "collect_lineages"
    /\ \E taxids \in SUBSET TaxidTokens :
          Called([NoArgs EXCEPT !.taxids = taxids], "returned",
                 collect_lineages(taxids, tree, level), {})

\* a fresh result, a loaded tree and a configuration; no run made yet
InitTaxonomy ==
    /\ process_id \in ProcessIds
    /\ seq_length = PyNone
    /\ obs_taxon = <<>>
    /\ exp_taxon = PyNone
    /\ species = PyNone
    /\ stop_codons = <<>>
    /\ ambiguities = PyNone
    /\ min_seq_length \in MinLengths
    /\ op = "__init__"
    /\ outcome = "ok"
    /\ tree \in Trees
    /\ level \in Levels
    /\ idcheck \in Idchecks
    /\ tx_op = "none"
    /\ tx_args = NoArgs
    /\ tx_outcome = "none"
    /\ tx_result = ResNone
    /\ tx_failed = {}

NextTaxonomy ==
    \/ RunSeqid
    \/ RunBoldigger2
    \/ RunBlast
    \/ RunLocalblast
    \/ CollectLineages

SpecTaxonomy == InitTaxonomy /\ [][NextTaxonomy]_vars

(***************************************************************************)
(* Properties of DNAAnalysisResult, checked under Spec.                    *)
(***************************************************************************)
\* an integer, for Python: an int or a bool (True is 1, False is 0)
IsInteger(v) == v.kind \in {"int", "bool"}
InvalidLength(v) == ~IsInteger(v) \/ v.num = 0 \/ v.num < 0
InvalidCount(v) == ~IsInteger(v) \/ v.num < 0
NotATaxon(v) == v.kind /= "Taxon"
InvalidPosition(v) == ~IsInteger(v) \/ v.num < 0
InvalidObsList(a) == ~a.isList \/ \E i \in 1..Len(a.items) : NotATaxon(a.items[i])
InvalidStopList(a) == ~a.isList \/ \E i \in 1..Len(a.items) : InvalidPosition(a.items[i])
Rejected == outcome' = "ValueError" /\ fields' = fields

C4_ObservedTaxaDistinct ==
    \A i, j \in 1..Len(obs_taxon) : i /= j => obs_taxon[i] /= obs_taxon[j]

\* C5: passes_all_checks() is true exactly when check_length(),
\* check_taxonomy() and check_pseudogene() are all true, and a call that makes
\* a sub-check false (add_stop_codon on a passing result) makes it false.
C5_PassesIffAllChecks ==
    /\ [](passes_all_checks <=> (check_length /\ check_taxonomy /\ check_pseudogene))
    /\ [][passes_all_checks /\ (~check_length' \/ ~check_taxonomy' \/ ~check_pseudogene')
            => ~passes_all_checks']_vars
    /\ [][passes_all_checks /\ op' = "add_stop_codon"
               /\ (\E v \in PosArgs : ~InvalidPosition(v) /\ add_stop_codon(v))
            => ~passes_all_checks']_vars

\* the scenario: length 500 over threshold 300, observed {G1}, expected G1,
\* and stop codon 45 just added to the empty list
C5_Witness ==
    /\ seq_length = PyInt(500) /\ min_seq_length = 300
    /\ obs_taxon = <<G1>> /\ exp_taxon = G1
    /\ op = "add_stop_codon" /\ outcome = "ok" /\ stop_codons = <<PyInt(45)>>
    /\ ~passes_all_checks

\* C6: check_taxonomy() is true exactly when the expected taxon is set, the
\* observed taxa are non-empty and the expected taxon equals one of them.
C6_CheckTaxonomyIffMember ==
    check_taxonomy <=>
        /\ exp_taxon /= PyNone
        /\ obs_taxon /= <<>>
        /\ \E i \in 1..Len(obs_taxon) : obs_taxon[i] = exp_taxon

\* expected set, observed non-empty, expected not among the observed
C6_Witness ==
    exp_taxon = G1 /\ obs_taxon = <<G2>> /\ ~check_taxonomy

AncestorNames(taxids) ==
    {n \in {nG1, nG2, nFa, nG, nH, nT1, nT2, nT3} :
        \E i \in 1..Len(tree) :
            /\ tree[i].taxon \in taxids
            /\ \E j \in 1..Len(tree[i].path) :
                  /\ tree[i].path[j].taxonomic_rank = Lower(level)
                  /\ tree[i].path[j].name = n}

\* C1: for a non-empty identifier set matching at least one tip (each matching
\* tip having an ancestor at the target rank), collect_lineages returns a
\* non-empty collection holding exactly the distinct names of those ancestors.
C1_LineagesAreAncestorNames ==
    (/\ tx_op = "collect_lineages"
     /\ MatchingTips(tx_args.taxids, tree) /= {}
     /\ \A i \in MatchingTips(tx_args.taxids, tree) : NodesAtLevel(tree[i], level) /= {})
    => /\ tx_outcome = "returned"
       /\ tx_result.kind = "list"
       /\ tx_result.items /= {}
       /\ tx_result.items = AncestorNames(tx_args.taxids)

\* C2: run_seqid with a method other than boldigger2, blast and localblast
\* ends in an error, never in a normal return.
C2_UnrecognizedMethodFails ==
    (tx_op = "run_seqid" /\ idcheck \notin {"boldigger2", "blast", "localblast"})
    => tx_outcome = "raised"

C8_CollaboratorFailureSurfaced ==
    (tx_op /= "none" /\ tx_failed /= {}) => tx_outcome = "raised"

\* C9: collect_lineages with identifiers matching no tip (the empty set
\* included) returns an empty result and raises nothing.
C9_NoMatchEmptyResult ==
    (tx_op = "collect_lineages" /\ \A i \in 1..Len(tree) : tree[i].taxon \notin tx_args.taxids)
    => tx_outcome = "returned" /\ tx_result = ResList({})

\* an identifier of no tip, resolved against the scenario tree
C9_Witness ==
    /\ tx_op = "collect_lineages" /\ tree = ScenarioTree /\ level = "genus"
    /\ tx_args.taxids = {"99"} /\ tx_result = ResList({})
====
